---- MODULE Spec2Model ----
(***************************************************************************)
(* Habit-completion accounting of the God Life backend: the                *)
(* routine_completions event log, the routine and profile aggregates that  *)
(* the database triggers derive from it, and the edge-function handlers    *)
(* that write to them.  One user (one profiles row) is modelled; every     *)
(* row's user_id is that user.  Timestamps (updated_at, completed_at) and  *)
(* descriptive columns (name, note, icon, ...) are not part of the state.  *)
(***************************************************************************)
EXTENDS Integers, FiniteSets, Sequences, Bags, TLC

\* ---------------------------------------------------------------- bounds
MaxDate == 5
MaxUserDate == 2
MaxSnapshot == 2
MaxStepDate == 3
MaxRequests == 3
MaxDay == 3
MaxUsage == 3
MaxMessages == 2
MaxTokens == 1
MaxAnchor == 3
MaxRun == 40
DaysPerMonth == 2

\* --------------------------------------------------- program constants
StreakLimit == 10000
FreeLimit == 3
ProLimit == 500

\* SQL NULL / JavaScript undefined / JSON null, for the nullable integer and
\* date values of the model (all genuine values are >= 0).
NULL == -1

Routines == {"r1", "r2"}

\* Calendar days are numbered from 1.  Spec follows one routine over the days
\* 1..MaxDate, SpecUser the user's two routines over the days 1..MaxUserDate.
Dates == 1..MaxDate

UserDates == 1..MaxUserDate

\* the days of SpecSteps
StepDates == 1..MaxStepDate

SoloRoutines == {"r1"}

Conversations == {"c1", "c2"}

\* the slots of concurrently running rate-limited requests
Requests == 1..MaxRequests

\* the users who may join the group / the challenge
Users == {"u1", "u2", "u3"}
Participants == {"u1", "u2"}

\* no request in flight
Idle == [op |-> "none", routine_id |-> "r1", date |-> 0]

\* a routines-table slot that holds no row
NoRow == [status |-> "none", current_streak |-> 0, longest_streak |-> 0,
          last_completed_at |-> NULL]

VARIABLES
  routine_completions, \* bag of rows [routine_id, completion_date]
  routines,            \* [Routines -> row or NoRow]
  profiles,            \* the user's profiles row
  response,            \* outcome of the last request / statement
  inflight,            \* the request whose handler is between two statements
  rpc_result,          \* result of the last direct calculate_streak call
  now,                 \* the current day
  subscription,        \* the profiles row's subscription_plan / subscription_expires_at
  ai_usage_tracking,   \* bag of rows [usage_date, conversation_count, message_count, tokens_used]
  coaching_conversations, \* [Conversations -> row or NoConversation]
  coaching_messages,   \* bag of rows [conversation_id, role]
  coaching_response,   \* outcome of the last rate-limiter call / coaching request
  ai_requests,         \* [Requests -> position of a rate-limited request]
  groups,              \* the groups row (or NoGroup)
  group_members,       \* [Users -> the user's group_members row and its transaction]
  challenges,          \* the challenges row (or NoChallenge)
  challenge_participants \* [Users -> the user's challenge_participants row and its transaction]

completionVars ==
  <<routine_completions, routines, profiles, response, inflight, rpc_result>>

coachingVars ==
  <<now, subscription, ai_usage_tracking, coaching_conversations,
    coaching_messages, coaching_response, ai_requests>>

socialVars == <<groups, group_members, challenges, challenge_participants>>

vars == <<completionVars, coachingVars, socialVars>>

\* ------------------------------------------------------------ SQL helpers
GREATEST(a, b) ==
  IF a = NULL THEN b ELSE IF b = NULL THEN a ELSE IF a >= b THEN a ELSE b

\* a + b with SQL NULL propagation
SqlAdd(a, b) == IF a = NULL \/ b = NULL THEN NULL ELSE a + b

RECURSIVE SetMax(_)
SetMax(S) ==
  IF S = {} THEN NULL
  ELSE LET x == CHOOSE y \in S : TRUE
           m == SetMax(S \ {x})
       IN IF m = NULL \/ x >= m THEN x ELSE m

COALESCE(a, b) == IF a = NULL THEN b ELSE a

\* the distinct rows of routine r in the bag rc
RowsOf(rc, r) == {row \in BagToSet(rc) : row.routine_id = r}

\* SELECT COUNT(*) FROM routine_completions WHERE routine_id = r
CountRows(rc, r) == BagCardinality([row \in RowsOf(rc, r) |-> rc[row]])

CompletionDates(rc, r) == {row.completion_date : row \in RowsOf(rc, r)}

HasCompletion(rc, r, d) == d \in CompletionDates(rc, r)

\* ------------------------------------------------------ streak calculator
RECURSIVE calculate_streak_loop(_, _, _, _)
calculate_streak_loop(rc, p_routine_id, v_streak, v_check_date) ==
  IF ~HasCompletion(rc, p_routine_id, v_check_date) THEN v_streak
  ELSE IF v_streak + 1 > StreakLimit THEN v_streak + 1
  ELSE calculate_streak_loop(rc, p_routine_id, v_streak + 1, v_check_date - 1)

\* a walk that starts at the anchor day itself instead of the day before it
calculate_streak_from_anchor(rc, p_routine_id, p_completion_date) ==
  calculate_streak_loop(rc, p_routine_id, 1, p_completion_date)

calculate_streak(rc, p_routine_id, p_completion_date) ==
  calculate_streak_loop(rc, p_routine_id, 1, p_completion_date - 1)

\* ---------------------------------------------------------- row triggers
\* A database state is a record [rc, rt, pf] of the three tables.
ActiveRoutines(rt) == {r \in DOMAIN rt : rt[r].status = "active"}

ExistingRoutines(rt) == {r \in DOMAIN rt : rt[r].status # "none"}

\* an insert trigger that overwrites longest_streak instead of keeping the maximum
update_routine_streak_overwrite(st, NEW_row) ==
  [st EXCEPT !.rt[NEW_row.routine_id] =
     [@ EXCEPT !.current_streak = NEW_row.streak_at_completion,
               !.longest_streak = NEW_row.streak_at_completion,
               !.last_completed_at = NEW_row.completion_date]]

update_routine_streak(st, NEW_row) ==
  [st EXCEPT !.rt[NEW_row.routine_id] =
     [@ EXCEPT !.current_streak = NEW_row.streak_at_completion,
               !.longest_streak = GREATEST(@, NEW_row.streak_at_completion),
               !.last_completed_at = NEW_row.completion_date]]

\* a delete trigger that decrements current_streak instead of recomputing it
reset_routine_streak_decrement(st, OLD_row) ==
  LET v_last_date == SetMax(CompletionDates(st.rc, OLD_row.routine_id))
  IN [st EXCEPT !.rt[OLD_row.routine_id] =
        [@ EXCEPT !.current_streak = GREATEST(0, @ - 1),
                  !.last_completed_at = v_last_date]]

reset_routine_streak(st, OLD_row) ==
  LET v_last_date == SetMax(CompletionDates(st.rc, OLD_row.routine_id))
  IN IF v_last_date = NULL
     THEN [st EXCEPT !.rt[OLD_row.routine_id] =
             [@ EXCEPT !.current_streak = 0, !.last_completed_at = NULL]]
     ELSE [st EXCEPT !.rt[OLD_row.routine_id] =
             [@ EXCEPT !.current_streak =
                          calculate_streak(st.rc, OLD_row.routine_id, v_last_date),
                       !.last_completed_at = v_last_date]]

update_profile_stats(st, NEW_row) ==
  [st EXCEPT !.pf =
     [@ EXCEPT !.total_completions = SqlAdd(@, 1),
               !.current_streak =
                  COALESCE(SetMax({st.rt[r].current_streak : r \in ActiveRoutines(st.rt)}), 0),
               !.longest_streak =
                  COALESCE(SetMax({st.rt[r].longest_streak : r \in ExistingRoutines(st.rt)}), 0)]]

decrement_profile_stats(st, OLD_row) ==
  [st EXCEPT !.pf =
     [@ EXCEPT !.total_completions = GREATEST(0, SqlAdd(@, -1)),
               !.current_streak =
                  COALESCE(SetMax({st.rt[r].current_streak : r \in ActiveRoutines(st.rt)}), 0),
               !.longest_streak =
                  COALESCE(SetMax({st.rt[r].longest_streak : r \in ExistingRoutines(st.rt)}), 0)]]

\* a counter of the routines that exist, whatever their status
update_profile_routine_count_all(st) ==
  [st EXCEPT !.pf = [@ EXCEPT !.total_routines = Cardinality(ExistingRoutines(st.rt))]]

update_profile_routine_count(st) ==
  [st EXCEPT !.pf = [@ EXCEPT !.total_routines = Cardinality(ActiveRoutines(st.rt))]]

\* PostgreSQL fires the row triggers of one event in alphabetical order of
\* their names.
AfterInsertTriggers ==
  <<"trigger_update_profile_stats", "trigger_update_routine_streak">>

AfterDeleteTriggers ==
  <<"trigger_decrement_profile_stats", "trigger_reset_routine_streak">>

FireTrigger(name, st, row) ==
  CASE name = "trigger_update_profile_stats" -> update_profile_stats(st, row)
    [] name = "trigger_update_routine_streak" -> update_routine_streak(st, row)
    [] name = "trigger_decrement_profile_stats" -> decrement_profile_stats(st, row)
    [] name = "trigger_reset_routine_streak" -> reset_routine_streak(st, row)

RECURSIVE FireTriggers(_, _, _)
FireTriggers(names, st, row) ==
  IF names = <<>> THEN st
  ELSE FireTriggers(Tail(names), FireTrigger(Head(names), st, row), row)

\* ------------------------------------------------------------ statements
\* Each statement maps a database state to [code, st]: code "ok" and the new
\* state, or the SQLSTATE / PostgREST error code and the unchanged state.
DB == [rc |-> routine_completions, rt |-> routines, pf |-> profiles]

RoutineColumns == {"status", "current_streak", "longest_streak", "last_completed_at"}

ProfileColumns == {"total_routines", "current_streak", "longest_streak", "total_completions"}

\* The stored form of a routine_completions row.  streak_at_completion is read
\* by the AFTER INSERT trigger (from NEW) and by nothing afterwards, so the
\* stored row keeps only its key.
StoredRow(payload) ==
  [routine_id |-> payload.routine_id, completion_date |-> payload.completion_date]

\* INSERT INTO routine_completions.  NOT NULL and CHECK constraints are
\* evaluated before the row is stored, the unique index when it is stored, the
\* foreign key after it; then the AFTER INSERT row triggers fire.
InsertCompletionStmt(st, payload) ==
  IF "streak_at_completion" \notin DOMAIN payload
  THEN [code |-> "23502", st |-> st]
  ELSE IF ~(payload.streak_at_completion > 0)
  THEN [code |-> "23514", st |-> st]
  ELSE IF HasCompletion(st.rc, payload.routine_id, payload.completion_date)
  THEN [code |-> "23505", st |-> st]
  ELSE IF st.rt[payload.routine_id].status = "none"
  THEN [code |-> "23503", st |-> st]
  ELSE [code |-> "ok",
        st |-> FireTriggers(AfterInsertTriggers,
                            [st EXCEPT !.rc = @ (+) SetToBag({StoredRow(payload)})], payload)]

\* DELETE FROM routine_completions WHERE id = <the row of (r, d)>: with no such
\* row nothing is deleted and no trigger fires.
DeleteCompletionStmt(st, r, d) ==
  IF ~HasCompletion(st.rc, r, d) THEN [code |-> "ok", st |-> st]
  ELSE LET OLD_row == CHOOSE row \in RowsOf(st.rc, r) : row.completion_date = d
       IN [code |-> "ok",
           st |-> FireTriggers(AfterDeleteTriggers,
                               [st EXCEPT !.rc = @ (-) SetToBag({OLD_row})], OLD_row)]

ApplyPayload(row, payload) ==
  [f \in DOMAIN row |-> IF f \in DOMAIN payload THEN payload[f] ELSE row[f]]

\* UPDATE routines SET <payload> WHERE id = r, through PostgREST: a payload
\* naming a column the table does not have is rejected as a whole.
PatchRoutinesStmt(st, r, payload) ==
  IF ~(DOMAIN payload \subseteq RoutineColumns)
  THEN [code |-> "PGRST204", st |-> st]
  ELSE IF st.rt[r].status = "none"
  THEN [code |-> "ok", st |-> st]
  ELSE LET st1 == [st EXCEPT !.rt[r] = ApplyPayload(@, payload)]
       IN [code |-> "ok",
           st |-> IF st1.rt[r].status # st.rt[r].status
                  THEN update_profile_routine_count(st1) ELSE st1]

\* UPDATE profiles SET <payload> WHERE id = <user>
PatchProfilesStmt(st, payload) ==
  IF ~(DOMAIN payload \subseteq ProfileColumns)
  THEN [code |-> "PGRST204", st |-> st]
  ELSE [code |-> "ok", st |-> [st EXCEPT !.pf = ApplyPayload(@, payload)]]

\* INSERT INTO routines with the column defaults
InsertRoutineStmt(st, r) ==
  IF st.rt[r].status # "none" THEN [code |-> "23505", st |-> st]
  ELSE [code |-> "ok",
        st |-> update_profile_routine_count(
                 [st EXCEPT !.rt[r] = [status |-> "active", current_streak |-> 0,
                                       longest_streak |-> 0,
                                       last_completed_at |-> NULL]])]

\* ------------------------------------------------------ JavaScript values
\* obj.f of an object that may lack the field (undefined)
JsGet(obj, f) == IF f \in DOMAIN obj THEN obj[f] ELSE NULL

\* Math.max(0, x - 1) as it reaches the database: undefined - 1 is NaN,
\* Math.max(0, NaN) is NaN, and JSON.stringify writes NaN as null.
JsMaxZeroMinusOne(x) == IF x = NULL THEN NULL ELSE IF x - 1 > 0 THEN x - 1 ELSE 0

\* the object getUserFromRequest returns (AuthUser)
AuthUser == [id |-> "u1", email |-> "", role |-> "authenticated",
             aud |-> "authenticated", exp |-> 0]

\* --------------------------------------------------------------- handlers
\* Each handler maps the database state to [status, st]: the response's
\* outcome ("ok" or the error class thrown) and the state it leaves.

\* POST /routines/:id/complete: the checks before the INSERT ("continue" when
\* they all pass) ...
RoutineCompleteCheck(st, r, d) ==
  IF st.rt[r].status = "none" THEN "NotFound"
  ELSE IF st.rt[r].status # "active" THEN "ValidationError"
  ELSE IF HasCompletion(st.rc, r, d) THEN "Conflict"
  ELSE "continue"

\* ... and the INSERT with the handling of its error
RoutineCompleteInsert(st, r, d) ==
  LET ins == InsertCompletionStmt(st, [routine_id |-> r, completion_date |-> d])
  IN IF ins.code = "ok" THEN [status |-> "ok", st |-> ins.st]
     ELSE IF ins.code = "23505" THEN [status |-> "Conflict", st |-> st]
     ELSE [status |-> "ValidationError", st |-> st]

RoutineCompleteResult(st, r, d) ==
  IF RoutineCompleteCheck(st, r, d) # "continue"
  THEN [status |-> RoutineCompleteCheck(st, r, d), st |-> st]
  ELSE RoutineCompleteInsert(st, r, d)

\* DELETE /routines/:id/complete/:date: the statements that follow the lookup
\* of the completion record ...
RoutineUncompleteDelete(st, r, d) ==
       LET routine == [user_id |-> AuthUser.id, name |-> "name"]
           user == AuthUser
           st1 == DeleteCompletionStmt(st, r, d).st
           latestCompletion == SetMax(CompletionDates(st1.rc, r))
           newStreak == IF latestCompletion # NULL
                        THEN calculate_streak(st1.rc, r, latestCompletion)
                        ELSE 0
           st2 == PatchRoutinesStmt(st1, r,
                    [current_streak |-> newStreak,
                     total_completions |->
                        JsMaxZeroMinusOne(JsGet(routine, "total_completions"))]).st
           st3 == PatchProfilesStmt(st2,
                    [total_completions |->
                        JsMaxZeroMinusOne(JsGet(user, "total_completions"))]).st
       IN [status |-> "ok", st |-> st3]

\* a handler that does not look the completion record up before deleting it
RoutineUncompleteNoLookup(st, r, d) ==
  IF st.rt[r].status = "none" THEN [status |-> "NotFound", st |-> st]
  ELSE RoutineUncompleteDelete(st, r, d)

\* ... and the handler with its lookups
RoutineUncompleteResult(st, r, d) ==
  IF st.rt[r].status = "none" THEN [status |-> "NotFound", st |-> st]
  ELSE IF ~HasCompletion(st.rc, r, d) THEN [status |-> "NotFound", st |-> st]
  ELSE RoutineUncompleteDelete(st, r, d)

\* PATCH /routines/:id with a status
UpdateRoutineResult(st, r, status) ==
  IF st.rt[r].status = "none" THEN [status |-> "NotFound", st |-> st]
  ELSE LET upd == PatchRoutinesStmt(st, r, [status |-> status])
       IN IF upd.code = "ok" THEN [status |-> "ok", st |-> upd.st]
          ELSE [status |-> "ValidationError", st |-> st]

\* a delete that removes the routines row, and with it (ON DELETE CASCADE)
\* the routine's completion records
DeleteRoutineResult_hard(st, r) ==
  IF st.rt[r].status = "none" THEN [status |-> "NotFound", st |-> st]
  ELSE [status |-> "ok",
        st |-> update_profile_routine_count(
                 [st EXCEPT !.rt[r] = NoRow,
                            !.rc = [row \in {x \in BagToSet(st.rc) : x.routine_id # r}
                                      |-> st.rc[row]]])]

\* DELETE /routines/:id (soft delete)
DeleteRoutineResult(st, r) ==
  IF st.rt[r].status = "none" THEN [status |-> "NotFound", st |-> st]
  ELSE LET upd == PatchRoutinesStmt(st, r, [status |-> "deleted"])
       IN IF upd.code = "ok" THEN [status |-> "ok", st |-> upd.st]
          ELSE [status |-> "ValidationError", st |-> st]

\* ---------------------------------------------------------------- actions
Commit(st) ==
  /\ routine_completions' = st.rc
  /\ routines' = st.rt
  /\ profiles' = st.pf

Respond(op, status, r) ==
  response' = [op |-> op, status |-> status, routine_id |-> r]

\* a client inserts a routines row (policy routines_insert_own)
InsertRoutine(r) ==
  /\ routines[r].status = "none"
  /\ LET res == InsertRoutineStmt(DB, r)
     IN Commit(res.st) /\ Respond("insert_routine", res.code, r)
  /\ UNCHANGED <<inflight, rpc_result>>
  /\ UNCHANGED <<coachingVars, socialVars>>

\* a client inserts a routine_completions row (policy completions_insert_own);
\* the row carries the streak_at_completion the client supplies
InsertCompletion(r, d, s) ==
  /\ LET res == InsertCompletionStmt(DB,
                  [routine_id |-> r, completion_date |-> d,
                   streak_at_completion |-> s])
     IN Commit(res.st) /\ Respond("insert", res.code, r)
  /\ UNCHANGED <<inflight, rpc_result>>
  /\ UNCHANGED <<coachingVars, socialVars>>

\* a client deletes one of its routine_completions rows (policy completions_delete_own)
DeleteCompletion(r, d) ==
  /\ HasCompletion(routine_completions, r, d)
  /\ LET res == DeleteCompletionStmt(DB, r, d)
     IN Commit(res.st) /\ Respond("delete", res.code, r)
  /\ UNCHANGED <<inflight, rpc_result>>
  /\ UNCHANGED <<coachingVars, socialVars>>

handleRoutineComplete(r, d) ==
  /\ LET res == RoutineCompleteResult(DB, r, d)
     IN Commit(res.st) /\ Respond("complete", res.status, r)
  /\ UNCHANGED <<inflight, rpc_result>>
  /\ UNCHANGED <<coachingVars, socialVars>>

handleRoutineUncomplete(r, d) ==
  /\ LET res == RoutineUncompleteResult(DB, r, d)
     IN Commit(res.st) /\ Respond("uncomplete", res.status, r)
  /\ UNCHANGED <<inflight, rpc_result>>
  /\ UNCHANGED <<coachingVars, socialVars>>

updateRoutine(r, status) ==
  /\ LET res == UpdateRoutineResult(DB, r, status)
     IN Commit(res.st) /\ Respond("update_routine", res.status, r)
  /\ UNCHANGED <<inflight, rpc_result>>
  /\ UNCHANGED <<coachingVars, socialVars>>

\* handleRoutineComplete statement by statement: its checks, after which other
\* requests may run, ...
BeginRoutineComplete(r, d) ==
  /\ inflight = Idle
  /\ IF RoutineCompleteCheck(DB, r, d) # "continue"
     THEN Respond("complete", RoutineCompleteCheck(DB, r, d), r) /\ UNCHANGED inflight
     ELSE inflight' = [op |-> "complete", routine_id |-> r, date |-> d]
          /\ UNCHANGED response
  /\ UNCHANGED <<routine_completions, routines, profiles, rpc_result>>
  /\ UNCHANGED <<coachingVars, socialVars>>

\* ... and its INSERT
FinishRoutineComplete ==
  /\ inflight.op = "complete"
  /\ LET res == RoutineCompleteInsert(DB, inflight.routine_id, inflight.date)
     IN Commit(res.st) /\ Respond("complete", res.status, inflight.routine_id)
  /\ inflight' = Idle
  /\ UNCHANGED rpc_result
  /\ UNCHANGED <<coachingVars, socialVars>>

\* a calculator that stores what it computes in the routine's current_streak
rpc_calculate_streak_storing(r, d) ==
  /\ rpc_result' = [routine_id |-> r, date |-> d,
                    value |-> calculate_streak(routine_completions, r, d)]
  /\ routines' = [routines EXCEPT ![r].current_streak =
                    calculate_streak(routine_completions, r, d)]
  /\ UNCHANGED <<routine_completions, profiles, response, inflight>>
  /\ UNCHANGED <<coachingVars, socialVars>>

\* rpc('calculate_streak', {p_routine_id, p_completion_date})
rpc_calculate_streak(r, d) ==
  /\ rpc_result' = [routine_id |-> r, date |-> d,
                    value |-> calculate_streak(routine_completions, r, d)]
  /\ UNCHANGED <<routine_completions, routines, profiles, response, inflight>>
  /\ UNCHANGED <<coachingVars, socialVars>>

deleteRoutine(r) ==
  /\ LET res == DeleteRoutineResult(DB, r)
     IN Commit(res.st) /\ Respond("delete_routine", res.status, r)
  /\ UNCHANGED <<inflight, rpc_result>>
  /\ UNCHANGED <<coachingVars, socialVars>>

\* ---------------------------------------------------------- specification
\* a coaching_conversations slot that holds no row
NoConversation == [exists |-> FALSE, message_count |-> 0]

\* no rate-limit result
NoRateLimit == [allowed |-> FALSE, remaining |-> 0, limit |-> 0]

\* lock: the transaction that has updated the row and not yet committed
NoGroup == [exists |-> FALSE, member_count |-> 0, max_members |-> 0, lock |-> "none"]

NoChallenge == [exists |-> FALSE, participant_count |-> 0, lock |-> "none"]

\* A child row (group_members, challenge_participants) of one user: absent,
\* inserted by a transaction whose trigger has counted the rows it can see,
\* inserted with the parent updated, or committed.
NoChild == [state |-> "none", count |-> 0]

\* the coaching tables empty, a profiles row with the column defaults
InitCoaching ==
  /\ now = 1
  /\ subscription = [plan |-> "basic", expires_at |-> NULL]
  /\ ai_usage_tracking = EmptyBag
  /\ coaching_conversations = [c \in Conversations |-> NoConversation]
  /\ coaching_messages = EmptyBag
  /\ coaching_response = [op |-> "none", status |-> "ok", ai_called |-> FALSE,
                          rateLimit |-> NoRateLimit]
  /\ ai_requests = [q \in Requests |-> "idle"]

InitSocial ==
  /\ groups = NoGroup
  /\ group_members = [u \in Users |-> NoChild]
  /\ challenges = NoChallenge
  /\ challenge_participants = [u \in Users |-> NoChild]

Init ==
  /\ InitCoaching
  /\ InitSocial
  /\ routine_completions = EmptyBag
  /\ routines = [r \in Routines |-> NoRow]
  /\ profiles = [total_routines |-> 0, current_streak |-> 0,
                 longest_streak |-> 0, total_completions |-> 0]
  /\ response = [op |-> "none", status |-> "ok", routine_id |-> "r1"]
  /\ inflight = Idle
  /\ rpc_result = [routine_id |-> "r1", date |-> 0, value |-> NULL]

\* the completion operations on the routines RS over the days DS
CompletionStep(RS, DS) ==
  \/ \E r \in RS : InsertRoutine(r)
  \/ \E r \in RS : \E d \in DS : \E s \in 1..MaxSnapshot : InsertCompletion(r, d, s)
  \/ \E r \in RS : \E d \in DS : DeleteCompletion(r, d)
  \/ \E r \in RS : \E d \in DS : handleRoutineComplete(r, d)
  \/ \E r \in RS : \E d \in DS : handleRoutineUncomplete(r, d)

\* the routine status operations
StatusStep(RS) ==
  \/ \E r \in RS : \E status \in {"active", "archived"} : updateRoutine(r, status)
  \/ \E r \in RS : deleteRoutine(r)

Next == CompletionStep(SoloRoutines, Dates)

Spec == Init /\ [][Next]_vars

\* The streak calculator (a pure function of the log) on every log of one
\* routine: the initial states hold, for each set S of days, the state the
\* database reaches when the routine is created and the days of S are
\* inserted in increasing order.
RECURSIVE Replay(_, _, _)
Replay(st, r, S) ==
  IF S = {} THEN st
  ELSE LET d == SetMax(S)
       IN InsertCompletionStmt(Replay(st, r, S \ {d}),
            [routine_id |-> r, completion_date |-> d,
             streak_at_completion |-> 1]).st

InitCalc ==
  /\ \E S \in SUBSET Dates :
       LET st0 == [rc |-> EmptyBag, rt |-> [r \in Routines |-> NoRow],
                   pf |-> [total_routines |-> 0, current_streak |-> 0,
                           longest_streak |-> 0, total_completions |-> 0]]
           st == Replay(InsertRoutineStmt(st0, "r1").st, "r1", S)
       IN /\ routine_completions = st.rc
          /\ routines = st.rt
          /\ profiles = st.pf
  /\ response = [op |-> "none", status |-> "ok", routine_id |-> "r1"]
  /\ inflight = Idle
  /\ rpc_result = [routine_id |-> "r1", date |-> 0, value |-> NULL]
  /\ InitCoaching
  /\ InitSocial

NextCalc ==
  \E r \in SoloRoutines : \E d \in 1..(MaxDate + 1) : rpc_calculate_streak(r, d)

SpecCalc == InitCalc /\ [][NextCalc]_vars

\* handleRoutineComplete racing the database statements of other requests
NextRace ==
  \/ \E r \in SoloRoutines : InsertRoutine(r)
  \/ \E r \in SoloRoutines : \E d \in UserDates : \E s \in 1..MaxSnapshot :
       InsertCompletion(r, d, s)
  \/ \E r \in SoloRoutines : \E d \in UserDates : DeleteCompletion(r, d)
  \/ \E r \in SoloRoutines : \E d \in UserDates : BeginRoutineComplete(r, d)
  \/ FinishRoutineComplete

SpecRace == Init /\ [][NextRace]_vars

NextUser == CompletionStep(Routines, UserDates) \/ StatusStep(Routines)

SpecUser == Init /\ [][NextUser]_vars

\* ------------------------------------ handleRoutineUncomplete step by step
\* Each supabase call of the handler is a request of its own to the database
\* (no transaction spans them); other requests may run between two of them.
\* inflight.pc names the call the handler makes next.

\* the two lookups (routine, completion record)
BeginRoutineUncomplete(r, d) ==
  /\ inflight.op = "none"
  /\ IF routines[r].status = "none" \/ ~HasCompletion(routine_completions, r, d)
     THEN Respond("uncomplete", "NotFound", r) /\ UNCHANGED inflight
     ELSE inflight' = [op |-> "uncomplete", routine_id |-> r, date |-> d,
                       pc |-> "delete", latestCompletion |-> NULL, newStreak |-> 0]
          /\ UNCHANGED response
  /\ UNCHANGED <<routine_completions, routines, profiles, rpc_result>>
  /\ UNCHANGED <<coachingVars, socialVars>>

\* .from('routine_completions').delete().eq('id', completion.id)
UncompleteDelete ==
  /\ inflight.op = "uncomplete" /\ inflight.pc = "delete"
  /\ Commit(DeleteCompletionStmt(DB, inflight.routine_id, inflight.date).st)
  /\ inflight' = [inflight EXCEPT !.pc = "latest"]
  /\ UNCHANGED <<response, rpc_result>>
  /\ UNCHANGED <<coachingVars, socialVars>>

\* the select of the latest remaining completion_date
UncompleteSelectLatest ==
  /\ inflight.op = "uncomplete" /\ inflight.pc = "latest"
  /\ inflight' = [inflight EXCEPT
                    !.pc = "rpc",
                    !.latestCompletion =
                       SetMax(CompletionDates(routine_completions, inflight.routine_id))]
  /\ UNCHANGED <<routine_completions, routines, profiles, response, rpc_result>>
  /\ UNCHANGED <<coachingVars, socialVars>>

\* rpc('calculate_streak') anchored at that date (skipped when there is none)
UncompleteRpc ==
  /\ inflight.op = "uncomplete" /\ inflight.pc = "rpc"
  /\ inflight' = [inflight EXCEPT
                    !.pc = "patch_routines",
                    !.newStreak =
                       IF inflight.latestCompletion # NULL
                       THEN calculate_streak(routine_completions, inflight.routine_id,
                                             inflight.latestCompletion)
                       ELSE 0]
  /\ UNCHANGED <<routine_completions, routines, profiles, response, rpc_result>>
  /\ UNCHANGED <<coachingVars, socialVars>>

\* the payload of the handler's UPDATE of routines
UncompleteRoutinesPayload ==
  [current_streak |-> inflight.newStreak,
   total_completions |->
      JsMaxZeroMinusOne(JsGet([user_id |-> AuthUser.id, name |-> "name"],
                              "total_completions"))]

\* .from('routines').update({...}); its error is not looked at
UncompletePatchRoutines ==
  /\ inflight.op = "uncomplete" /\ inflight.pc = "patch_routines"
  /\ Commit(PatchRoutinesStmt(DB, inflight.routine_id, UncompleteRoutinesPayload).st)
  /\ inflight' = [inflight EXCEPT !.pc = "patch_profiles"]
  /\ UNCHANGED <<response, rpc_result>>
  /\ UNCHANGED <<coachingVars, socialVars>>

\* .from('profiles').update({...}) and the success response
UncompletePatchProfiles ==
  /\ inflight.op = "uncomplete" /\ inflight.pc = "patch_profiles"
  /\ Commit(PatchProfilesStmt(DB,
              [total_completions |->
                 JsMaxZeroMinusOne(JsGet(AuthUser, "total_completions"))]).st)
  /\ Respond("uncomplete", "ok", inflight.routine_id)
  /\ inflight' = Idle
  /\ UNCHANGED rpc_result
  /\ UNCHANGED <<coachingVars, socialVars>>

\* handleRoutineUncomplete running while other clients insert completions
NextSteps ==
  \/ \E r \in SoloRoutines : InsertRoutine(r)
  \/ \E r \in SoloRoutines : \E d \in StepDates : \E s \in 1..MaxSnapshot :
       InsertCompletion(r, d, s)
  \/ \E r \in SoloRoutines : \E d \in StepDates : BeginRoutineUncomplete(r, d)
  \/ UncompleteDelete
  \/ UncompleteSelectLatest
  \/ UncompleteRpc
  \/ UncompletePatchRoutines
  \/ UncompletePatchProfiles

SpecSteps == Init /\ [][NextSteps]_vars

\* ------------------------------------------------------------ rate limiter
\* Days are numbered from 1; a month is DaysPerMonth consecutive days.
QuotaDays == 1..MaxDay

\* token counts of a response
TokenCounts == {0, 1}

\* first day of the month that day d is in
FirstOfMonth(d) == ((d - 1) \div DaysPerMonth) * DaysPerMonth + 1

\* JavaScript values passed where a number is expected
JsNumber(n) == [type |-> "number", value |-> n]

JsString(x) == [type |-> "string", value |-> x]

\* the rows of ai_usage_tracking (of the user) with usage_date in D
UsageRows(tbl, D) == {row \in BagToSet(tbl) : row.usage_date \in D}

\* SUM(conversation_count) over the rows with usage_date in D
RECURSIVE SumConversationCount(_, _)
SumConversationCount(tbl, rows) ==
  IF rows = {} THEN 0
  ELSE LET row == CHOOSE x \in rows : TRUE
       IN row.conversation_count * CopiesIn(row, tbl)
            + SumConversationCount(tbl, rows \ {row})

\* INSERT INTO ai_usage_tracking ... ON CONFLICT (user_id, usage_date) DO UPDATE:
\* one statement; an argument that is not an integer is rejected (22P02)
\* variant: a plain INSERT on a table without the unique constraint
increment_ai_usage_plain_insert(tbl, p_usage_date, p_message_tokens) ==
  IF p_message_tokens.type # "number" THEN [code |-> "22P02", tbl |-> tbl]
  ELSE [code |-> "ok",
        tbl |-> tbl (+) SetToBag({[usage_date |-> p_usage_date,
                                   conversation_count |-> 1,
                                   message_count |-> 1,
                                   tokens_used |-> p_message_tokens.value]})]

\* variant: ON CONFLICT DO NOTHING (an existing row is left as it is)
increment_ai_usage_do_nothing(tbl, p_usage_date, p_message_tokens) ==
  IF p_message_tokens.type # "number" THEN [code |-> "22P02", tbl |-> tbl]
  ELSE IF UsageRows(tbl, {p_usage_date}) = {}
  THEN [code |-> "ok",
        tbl |-> tbl (+) SetToBag({[usage_date |-> p_usage_date,
                                   conversation_count |-> 1,
                                   message_count |-> 1,
                                   tokens_used |-> p_message_tokens.value]})]
  ELSE [code |-> "ok", tbl |-> tbl]

increment_ai_usage(tbl, p_usage_date, p_message_tokens) ==
  IF p_message_tokens.type # "number" THEN [code |-> "22P02", tbl |-> tbl]
  ELSE IF UsageRows(tbl, {p_usage_date}) = {}
  THEN [code |-> "ok",
        tbl |-> tbl (+) SetToBag({[usage_date |-> p_usage_date,
                                   conversation_count |-> 1,
                                   message_count |-> 1,
                                   tokens_used |-> p_message_tokens.value]})]
  ELSE LET old == CHOOSE row \in UsageRows(tbl, {p_usage_date}) : TRUE
       IN [code |-> "ok",
           tbl |-> (tbl (-) SetToBag({old})) (+)
                   SetToBag({[old EXCEPT
                                !.conversation_count = @ + 1,
                                !.message_count = @ + 1,
                                !.tokens_used = @ + p_message_tokens.value]})]

\* incrementAIUsage(userId, tokens): true when the rpc returned no error
incrementAIUsageResult(tbl, today, tokens) ==
  LET res == increment_ai_usage(tbl, today, tokens)
  IN [ok |-> res.code = "ok", tbl |-> res.tbl]

isPro(sub, today) ==
  sub.plan = "pro" /\ sub.expires_at # NULL /\ sub.expires_at > today

\* variant: a subject is still allowed when used equals the limit
checkAIRateLimit_inclusive(sub, tbl, today) ==
  LET pro == isPro(sub, today)
      limit == IF pro THEN ProLimit ELSE FreeLimit
      used == SumConversationCount(tbl,
                UsageRows(tbl, IF pro THEN {d \in QuotaDays : d >= FirstOfMonth(today)}
                               ELSE {today}))
  IN [allowed |-> used <= limit,
      remaining |-> IF limit - used > 0 THEN limit - used ELSE 0,
      limit |-> limit]

checkAIRateLimit(sub, tbl, today) ==
  IF isPro(sub, today)
  THEN LET limit == ProLimit
           usageDate == FirstOfMonth(today)
           totalUsage == SumConversationCount(tbl,
                           UsageRows(tbl, {d \in QuotaDays : d >= usageDate}))
       IN [allowed |-> totalUsage < limit,
           remaining |-> IF limit - totalUsage > 0 THEN limit - totalUsage ELSE 0,
           limit |-> limit]
  ELSE LET limit == FreeLimit
           usage == UsageRows(tbl, {today})
           used == IF Cardinality(usage) = 1
                      /\ \A row \in usage : CopiesIn(row, tbl) = 1
                   THEN (CHOOSE row \in usage : TRUE).conversation_count
                   ELSE 0
       IN [allowed |-> used < limit,
           remaining |-> IF limit - used > 0 THEN limit - used ELSE 0,
           limit |-> limit]

\* a < b in SQL: null when an operand is null
SqlLessThan(a, b) ==
  IF a = NULL \/ b = NULL THEN "null" ELSE IF a < b THEN "true" ELSE "false"

\* check_ai_limit(p_user_id, p_check_date): SELECT ... INTO leaves v_count
\* null when no row matches
check_ai_limit(sub, tbl, p_check_date, today) ==
  IF sub.plan = "pro" /\ sub.expires_at # NULL /\ sub.expires_at > today
  THEN LET v_count == SumConversationCount(tbl,
                        UsageRows(tbl, {d \in QuotaDays : d >= FirstOfMonth(p_check_date)}))
       IN SqlLessThan(v_count, ProLimit)
  ELSE LET rows == UsageRows(tbl, {p_check_date})
           v_count == IF rows = {} THEN NULL
                      ELSE COALESCE((CHOOSE row \in rows : TRUE).conversation_count, 0)
       IN SqlLessThan(v_count, FreeLimit)

checkRateLimit(config, sub, tbl, today) ==
  IF "type" \in DOMAIN config /\ config.type \in {"ai_daily", "ai_monthly"}
  THEN checkAIRateLimit(sub, tbl, today)
  ELSE [allowed |-> TRUE,
        remaining |-> JsGet(config, "maxRequests"),
        limit |-> JsGet(config, "maxRequests")]

createAIRateLimitConfig(type) ==
  IF type = "monthly"
  THEN [maxRequests |-> 500, windowMs |-> 30 * 24 * 60 * 60 * 1000, type |-> "ai_monthly"]
  ELSE [maxRequests |-> 3, windowMs |-> 24 * 60 * 60 * 1000, type |-> "ai_daily"]

\* SUM(tokens_used) over the rows in rows
RECURSIVE SumTokensUsed(_, _)
SumTokensUsed(tbl, rows) ==
  IF rows = {} THEN 0
  ELSE LET row == CHOOSE x \in rows : TRUE
       IN row.tokens_used * CopiesIn(row, tbl) + SumTokensUsed(tbl, rows \ {row})

\* the tokens the ledger has recorded
TokensUsed == SumTokensUsed(ai_usage_tracking, BagToSet(ai_usage_tracking))

\* today's conversation_count (0 without a row)
UsedToday ==
  SumConversationCount(ai_usage_tracking, UsageRows(ai_usage_tracking, {now}))

\* midnight passes
Tick ==
  /\ now < MaxDay
  /\ now' = now + 1
  /\ UNCHANGED <<subscription, ai_usage_tracking, coaching_conversations,
                 coaching_messages, coaching_response, ai_requests>>
  /\ UNCHANGED <<completionVars, socialVars>>

\* the subscription columns of the profiles row are written (purchase,
\* renewal, cancellation; policy profiles_update_own)
SetSubscription(plan, expires_at) ==
  /\ subscription' = [plan |-> plan, expires_at |-> expires_at]
  /\ UNCHANGED <<now, ai_usage_tracking, coaching_conversations,
                 coaching_messages, coaching_response, ai_requests>>
  /\ UNCHANGED <<completionVars, socialVars>>

\* incrementAIUsage(userId, tokens): tokens is 0 by default, or the token
\* count of a response
incrementAIUsage(tokens) ==
  /\ UsedToday < MaxUsage \/ UsedToday >= ProLimit - MaxUsage
  /\ tokens = 0 \/ TokensUsed + tokens <= MaxTokens
  /\ UsedToday < ProLimit + 1
  /\ LET res == incrementAIUsageResult(ai_usage_tracking, now, JsNumber(tokens))
     IN /\ ai_usage_tracking' = res.tbl
        /\ coaching_response' = [op |-> "increment",
                                 status |-> IF res.ok THEN "ok" ELSE "error",
                                 ai_called |-> FALSE, rateLimit |-> NoRateLimit]
  /\ UNCHANGED <<now, subscription, coaching_conversations, coaching_messages,
                 ai_requests>>
  /\ UNCHANGED <<completionVars, socialVars>>

\* getAIUsage(userId): checkRateLimit with the daily AI configuration
getAIUsage ==
  /\ coaching_response' =
       [op |-> "check", status |-> "ok", ai_called |-> FALSE,
        rateLimit |-> checkRateLimit(createAIRateLimitConfig("daily"),
                                     subscription, ai_usage_tracking, now)]
  /\ UNCHANGED <<now, subscription, ai_usage_tracking, coaching_conversations,
                 coaching_messages, ai_requests>>
  /\ UNCHANGED <<completionVars, socialVars>>

\* rpc check_ai_limit(p_user_id) with the default p_check_date = CURRENT_DATE
rpc_check_ai_limit ==
  /\ coaching_response' =
       [op |-> "check_ai_limit",
        status |-> check_ai_limit(subscription, ai_usage_tracking, now, now),
        ai_called |-> FALSE, rateLimit |-> NoRateLimit]
  /\ UNCHANGED <<now, subscription, ai_usage_tracking, coaching_conversations,
                 coaching_messages, ai_requests>>
  /\ UNCHANGED <<completionVars, socialVars>>

\* the row of one day after n calls of increment_ai_usage with no tokens
UsageAfter(day, n) ==
  IF n = 0 THEN EmptyBag
  ELSE SetToBag({[usage_date |-> day, conversation_count |-> n,
                  message_count |-> n, tokens_used |-> 0]})

\* The ledger of the first day starts empty or, for a subscriber of long
\* standing, a few conversations short of the monthly ceiling.
InitQuota ==
  /\ now = 1
  /\ subscription = [plan |-> "basic", expires_at |-> NULL]
  /\ \E n \in {0, ProLimit - MaxUsage} :
       ai_usage_tracking = UsageAfter(1, n)
  /\ coaching_conversations = [c \in Conversations |-> NoConversation]
  /\ coaching_messages = EmptyBag
  /\ coaching_response = [op |-> "none", status |-> "ok", ai_called |-> FALSE,
                          rateLimit |-> NoRateLimit]
  /\ ai_requests = [q \in Requests |-> "idle"]
  /\ InitSocial
  /\ routine_completions = EmptyBag
  /\ routines = [r \in Routines |-> NoRow]
  /\ profiles = [total_routines |-> 0, current_streak |-> 0,
                 longest_streak |-> 0, total_completions |-> 0]
  /\ response = [op |-> "none", status |-> "ok", routine_id |-> "r1"]
  /\ inflight = Idle
  /\ rpc_result = [routine_id |-> "r1", date |-> 0, value |-> NULL]

NextQuota ==
  \/ Tick
  \/ \E plan \in {"basic", "pro"} : \E expires_at \in {NULL} \cup (2..(MaxDay + 1)) :
       SetSubscription(plan, expires_at)
  \/ \E tokens \in TokenCounts : incrementAIUsage(tokens)
  \/ getAIUsage
  \/ rpc_check_ai_limit

SpecQuota == InitQuota /\ [][NextQuota]_vars

\* ------------------------------------------- rate-limited requests, by step
\* A rate-limited request as the limiter is meant to be used: checkRateLimit
\* with the AI configuration, then the action, then incrementAIUsage.  Each
\* is a call of its own, and requests of one subject run concurrently.
RequestCheck(q) ==
  /\ ai_requests[q] = "idle"
  /\ LET rateLimit == checkRateLimit(createAIRateLimitConfig("daily"),
                                     subscription, ai_usage_tracking, now)
     IN /\ ai_requests' = [ai_requests EXCEPT
                             ![q] = IF rateLimit.allowed THEN "allowed" ELSE "idle"]
        /\ coaching_response' =
             [op |-> "check",
              status |-> IF rateLimit.allowed THEN "ok" ELSE "RateLimitError",
              ai_called |-> FALSE, rateLimit |-> rateLimit]
  /\ UNCHANGED <<now, subscription, ai_usage_tracking, coaching_conversations,
                 coaching_messages>>
  /\ UNCHANGED <<completionVars, socialVars>>

\* the rate-limited action: it succeeds, or it throws and the request ends
RequestAction(q, ok) ==
  /\ ai_requests[q] = "allowed"
  /\ ai_requests' = [ai_requests EXCEPT ![q] = IF ok THEN "acted" ELSE "idle"]
  /\ coaching_response' = [op |-> "action",
                           status |-> IF ok THEN "ok" ELSE "ExternalServiceError",
                           ai_called |-> TRUE, rateLimit |-> NoRateLimit]
  /\ UNCHANGED <<now, subscription, ai_usage_tracking, coaching_conversations,
                 coaching_messages>>
  /\ UNCHANGED <<completionVars, socialVars>>

RequestIncrement(q) ==
  /\ ai_requests[q] = "acted"
  /\ LET res == incrementAIUsageResult(ai_usage_tracking, now, JsNumber(0))
     IN /\ ai_usage_tracking' = res.tbl
        /\ coaching_response' = [op |-> "increment",
                                 status |-> IF res.ok THEN "ok" ELSE "error",
                                 ai_called |-> FALSE, rateLimit |-> NoRateLimit]
  /\ ai_requests' = [ai_requests EXCEPT ![q] = "idle"]
  /\ UNCHANGED <<now, subscription, coaching_conversations, coaching_messages>>
  /\ UNCHANGED <<completionVars, socialVars>>

NextRequests ==
  \/ \E q \in Requests : RequestCheck(q)
  \/ \E q \in Requests : \E ok \in BOOLEAN : RequestAction(q, ok)
  \/ \E q \in Requests : RequestIncrement(q)

\* one free-tier subject, one day, an empty ledger
SpecRequests == Init /\ [][NextRequests]_vars

\* ---------------------------------------------------------------- coaching
ConversationColumns ==
  {"id", "user_id", "title", "message_count", "has_report", "created_at", "updated_at"}

MessageColumns ==
  {"id", "conversation_id", "user_id", "role", "content", "tokens_used", "model",
   "created_at"}

\* the coaching tables and the usage ledger as a handler sees them
CoachingDB ==
  [cv |-> coaching_conversations, ms |-> coaching_messages, us |-> ai_usage_tracking]

\* INSERT INTO coaching_conversations (id generated as c)
InsertConversationStmt(st, c, payload) ==
  IF ~(DOMAIN payload \subseteq ConversationColumns)
  THEN [code |-> "PGRST204", st |-> st]
  ELSE IF "user_id" \notin DOMAIN payload
  THEN [code |-> "23502", st |-> st]
  ELSE LET message_count == IF "message_count" \in DOMAIN payload
                            THEN payload.message_count ELSE 0
       IN IF message_count # NULL /\ message_count < 0
          THEN [code |-> "23514", st |-> st]
          ELSE [code |-> "ok",
                st |-> [st EXCEPT !.cv[c] = [exists |-> TRUE,
                                             message_count |-> message_count]]]

\* AFTER INSERT ON coaching_messages
update_conversation_message_count(st, NEW_row) ==
  [st EXCEPT !.cv[NEW_row.conversation_id].message_count = SqlAdd(@, 1)]

\* INSERT INTO coaching_messages
InsertMessageStmt(st, payload) ==
  IF ~(DOMAIN payload \subseteq MessageColumns)
  THEN [code |-> "PGRST204", st |-> st]
  ELSE IF ~({"conversation_id", "user_id", "role", "content"} \subseteq DOMAIN payload)
  THEN [code |-> "23502", st |-> st]
  ELSE IF payload.role \notin {"user", "assistant"}
  THEN [code |-> "23514", st |-> st]
  ELSE IF ~st.cv[payload.conversation_id].exists
  THEN [code |-> "23503", st |-> st]
  ELSE LET NEW_row == [conversation_id |-> payload.conversation_id,
                       role |-> payload.role]
       IN [code |-> "ok",
           st |-> update_conversation_message_count(
                    [st EXCEPT !.ms = @ (+) SetToBag({NEW_row})], NEW_row)]

\* the object both handlers pass to checkRateLimit
HandlerRateLimitConfig(sub) ==
  [resource |-> "ai_conversations", subscriptionPlan |-> sub.plan,
   subscriptionExpiresAt |-> sub.expires_at]

CoachingResult(status, ai_called, rateLimit, st) ==
  [status |-> status, ai_called |-> ai_called, rateLimit |-> rateLimit, st |-> st]

\* POST /coaching/conversations: the new conversation gets id c; ai_ok says
\* whether aiClient.chat returns or throws
createConversationResult(st, sub, today, c, ai_ok) ==
  LET rateLimit == checkRateLimit(HandlerRateLimitConfig(sub), sub, st.us, today)
  IN IF ~rateLimit.allowed
     THEN CoachingResult("RateLimitError", FALSE, rateLimit, st)
     ELSE
     LET conv == InsertConversationStmt(
                   st, c, [user_id |-> "u1", title |-> "title", message_count |-> 2])
     IN IF conv.code # "ok"
        THEN CoachingResult("ValidationError", FALSE, rateLimit, st)
        ELSE
        LET userMessage == InsertMessageStmt(
                             conv.st, [conversation_id |-> c, role |-> "user",
                                       content |-> "content"])
        IN IF userMessage.code # "ok"
           THEN CoachingResult("ValidationError", FALSE, rateLimit, conv.st)
           ELSE IF ~ai_ok
           THEN CoachingResult("ExternalServiceError", TRUE, rateLimit, userMessage.st)
           ELSE
           LET aiMessage == InsertMessageStmt(
                              userMessage.st,
                              [conversation_id |-> c, role |-> "assistant",
                               content |-> "content", tokens |-> 1])
           IN IF aiMessage.code # "ok"
              THEN CoachingResult("ValidationError", TRUE, rateLimit, userMessage.st)
              ELSE CoachingResult(
                     "ok", TRUE, rateLimit,
                     [aiMessage.st EXCEPT
                        !.us = incrementAIUsageResult(@, today, JsString(sub.plan)).tbl])

\* UPDATE coaching_conversations SET <payload> WHERE id = c
PatchConversationStmt(st, c, payload) ==
  IF ~(DOMAIN payload \subseteq ConversationColumns)
  THEN [code |-> "PGRST204", st |-> st]
  ELSE IF ~st.cv[c].exists THEN [code |-> "ok", st |-> st]
  ELSE [code |-> "ok", st |-> [st EXCEPT !.cv[c].message_count = payload.message_count]]

\* POST /coaching/conversations/:id/messages
handleSendMessageResult(st, sub, today, c, ai_ok) ==
  IF ~st.cv[c].exists
  THEN CoachingResult("NotFoundError", FALSE, NoRateLimit, st)
  ELSE
  LET conversation == st.cv[c]
      rateLimit == checkRateLimit(HandlerRateLimitConfig(sub), sub, st.us, today)
  IN IF ~rateLimit.allowed
     THEN CoachingResult("RateLimitError", FALSE, rateLimit, st)
     ELSE IF ~ai_ok
     THEN CoachingResult("ExternalServiceError", TRUE, rateLimit, st)
     ELSE
     LET userMessage == InsertMessageStmt(
                          st, [conversation_id |-> c, role |-> "user",
                               content |-> "content"])
     IN IF userMessage.code # "ok"
        THEN CoachingResult("ValidationError", TRUE, rateLimit, st)
        ELSE
        LET aiMessage == InsertMessageStmt(
                           userMessage.st,
                           [conversation_id |-> c, role |-> "assistant",
                            content |-> "content", tokens |-> 1])
        IN IF aiMessage.code # "ok"
           THEN CoachingResult("ValidationError", TRUE, rateLimit, userMessage.st)
           ELSE
           LET patched == PatchConversationStmt(
                            aiMessage.st, c,
                            [message_count |-> SqlAdd(conversation.message_count, 2),
                             updated_at |-> today]).st
           IN CoachingResult(
                "ok", TRUE, rateLimit,
                [patched EXCEPT
                   !.us = incrementAIUsageResult(@, today, JsString(sub.plan)).tbl])

CommitCoaching(op, res) ==
  /\ coaching_conversations' = res.st.cv
  /\ coaching_messages' = res.st.ms
  /\ ai_usage_tracking' = res.st.us
  /\ coaching_response' = [op |-> op, status |-> res.status,
                           ai_called |-> res.ai_called, rateLimit |-> res.rateLimit]

createConversation(c, ai_ok) ==
  /\ ~coaching_conversations[c].exists
  /\ CommitCoaching("createConversation",
                    createConversationResult(CoachingDB, subscription, now, c, ai_ok))
  /\ UNCHANGED <<now, subscription, ai_requests>>
  /\ UNCHANGED <<completionVars, socialVars>>

handleSendMessage(c, ai_ok) ==
  /\ CommitCoaching("handleSendMessage",
                    handleSendMessageResult(CoachingDB, subscription, now, c, ai_ok))
  /\ UNCHANGED <<now, subscription, ai_requests>>
  /\ UNCHANGED <<completionVars, socialVars>>

\* a client inserts a coaching_conversations row (policy conversations_insert_own)
InsertConversation(c) ==
  /\ ~coaching_conversations[c].exists
  /\ LET res == InsertConversationStmt(CoachingDB, c, [user_id |-> "u1"])
     IN CommitCoaching("InsertConversation",
                       CoachingResult(res.code, FALSE, NoRateLimit, res.st))
  /\ UNCHANGED <<now, subscription, ai_requests>>
  /\ UNCHANGED <<completionVars, socialVars>>

\* a client inserts a coaching_messages row (policy messages_insert_own)
InsertMessage(c, role) ==
  /\ BagCardinality(coaching_messages) < MaxMessages
  /\ LET res == InsertMessageStmt(
                  CoachingDB, [conversation_id |-> c, user_id |-> "u1",
                               role |-> role, content |-> "content"])
     IN CommitCoaching("InsertMessage",
                       CoachingResult(res.code, FALSE, NoRateLimit, res.st))
  /\ UNCHANGED <<now, subscription, ai_requests>>
  /\ UNCHANGED <<completionVars, socialVars>>

NextCoaching ==
  \/ \E c \in Conversations : \E ai_ok \in BOOLEAN : createConversation(c, ai_ok)
  \/ \E c \in Conversations : \E ai_ok \in BOOLEAN : handleSendMessage(c, ai_ok)
  \/ \E c \in Conversations : InsertConversation(c)
  \/ \E c \in Conversations : \E role \in {"user", "assistant"} : InsertMessage(c, role)
  \/ incrementAIUsage(0)

SpecCoaching == Init /\ [][NextCoaching]_vars

\* ---------------------------------------------------- groups and challenges
\* Each INSERT of a child row is a transaction at READ COMMITTED: the row is
\* written, the AFTER INSERT trigger's UPDATE statement counts the rows its
\* snapshot shows (the committed ones and its own), waits for the parent row
\* while another transaction holds it, writes the count it computed, and the
\* transaction commits.
Committed(children) == {u \in Users : children[u].state = "committed"}

\* SELECT COUNT(*) of the child rows as the transaction inserting u's row sees them
CountVisible(children, u) == Cardinality(Committed(children) \cup {u})

\* a client inserts a groups row (policy groups_insert_own), member_count by default
InsertGroup(max_members) ==
  /\ ~groups.exists
  /\ groups' = [exists |-> TRUE, member_count |-> 1, max_members |-> max_members,
                lock |-> "none"]
  /\ UNCHANGED <<group_members, challenges, challenge_participants>>
  /\ UNCHANGED <<completionVars, coachingVars>>

\* INSERT INTO group_members, up to the trigger's count
InsertGroupMember(u) ==
  /\ groups.exists
  /\ group_members[u].state = "none"
  /\ group_members' = [group_members EXCEPT
                         ![u] = [state |-> "inserted",
                                 count |-> CountVisible(group_members, u)]]
  /\ UNCHANGED <<groups, challenges, challenge_participants>>
  /\ UNCHANGED <<completionVars, coachingVars>>

\* update_group_member_count: UPDATE groups SET member_count = <count>; the
\* CHECK on member_count rejects the statement and with it the INSERT
update_group_member_count(u) ==
  /\ group_members[u].state = "inserted"
  /\ groups.lock = "none"
  /\ IF group_members[u].count <= groups.max_members
     THEN /\ groups' = [groups EXCEPT !.member_count = group_members[u].count,
                                      !.lock = u]
          /\ group_members' = [group_members EXCEPT ![u].state = "updated"]
     ELSE /\ group_members' = [group_members EXCEPT ![u] = NoChild]
          /\ UNCHANGED groups
  /\ UNCHANGED <<challenges, challenge_participants>>
  /\ UNCHANGED <<completionVars, coachingVars>>

CommitGroupMember(u) ==
  /\ group_members[u].state = "updated"
  /\ group_members' = [group_members EXCEPT ![u] = [state |-> "committed", count |-> 0]]
  /\ groups' = [groups EXCEPT !.lock = "none"]
  /\ UNCHANGED <<challenges, challenge_participants>>
  /\ UNCHANGED <<completionVars, coachingVars>>

\* DELETE FROM group_members with its trigger, in a transaction of its own
DeleteGroupMember(u) ==
  /\ group_members[u].state = "committed"
  /\ groups.lock = "none"
  /\ group_members' = [group_members EXCEPT ![u] = NoChild]
  /\ groups' = [groups EXCEPT
                  !.member_count = Cardinality(Committed(group_members) \ {u})]
  /\ UNCHANGED <<challenges, challenge_participants>>
  /\ UNCHANGED <<completionVars, coachingVars>>

\* a challenges row is inserted, participant_count by default
InsertChallenge ==
  /\ ~challenges.exists
  /\ challenges' = [exists |-> TRUE, participant_count |-> 0, lock |-> "none"]
  /\ UNCHANGED <<groups, group_members, challenge_participants>>
  /\ UNCHANGED <<completionVars, coachingVars>>

\* INSERT INTO challenge_participants (policy challenge_participants_insert_own),
\* up to the trigger's count
InsertChallengeParticipant(u) ==
  /\ challenges.exists
  /\ challenge_participants[u].state = "none"
  /\ challenge_participants' =
       [challenge_participants EXCEPT
          ![u] = [state |-> "inserted",
                  count |-> CountVisible(challenge_participants, u)]]
  /\ UNCHANGED <<groups, group_members, challenges>>
  /\ UNCHANGED <<completionVars, coachingVars>>

\* update_challenge_participant_count: UPDATE challenges SET participant_count = <count>
update_challenge_participant_count(u) ==
  /\ challenge_participants[u].state = "inserted"
  /\ challenges.lock = "none"
  /\ challenges' = [challenges EXCEPT
                      !.participant_count = challenge_participants[u].count,
                      !.lock = u]
  /\ challenge_participants' = [challenge_participants EXCEPT ![u].state = "updated"]
  /\ UNCHANGED <<groups, group_members>>
  /\ UNCHANGED <<completionVars, coachingVars>>

CommitChallengeParticipant(u) ==
  /\ challenge_participants[u].state = "updated"
  /\ challenge_participants' =
       [challenge_participants EXCEPT ![u] = [state |-> "committed", count |-> 0]]
  /\ challenges' = [challenges EXCEPT !.lock = "none"]
  /\ UNCHANGED <<groups, group_members>>
  /\ UNCHANGED <<completionVars, coachingVars>>

\* DELETE FROM challenge_participants with its trigger, in a transaction of its own
DeleteChallengeParticipant(u) ==
  /\ challenge_participants[u].state = "committed"
  /\ challenges.lock = "none"
  /\ challenge_participants' = [challenge_participants EXCEPT ![u] = NoChild]
  /\ challenges' = [challenges EXCEPT
                      !.participant_count =
                        Cardinality(Committed(challenge_participants) \ {u})]
  /\ UNCHANGED <<groups, group_members>>
  /\ UNCHANGED <<completionVars, coachingVars>>

NextSocial ==
  \/ \E max_members \in {2, 3} : InsertGroup(max_members)
  \/ \E u \in Users : InsertGroupMember(u)
  \/ \E u \in Users : update_group_member_count(u)
  \/ \E u \in Users : CommitGroupMember(u)
  \/ \E u \in Users : DeleteGroupMember(u)
  \/ InsertChallenge
  \/ \E u \in Participants : InsertChallengeParticipant(u)
  \/ \E u \in Participants : update_challenge_participant_count(u)
  \/ \E u \in Participants : CommitChallengeParticipant(u)
  \/ \E u \in Participants : DeleteChallengeParticipant(u)

SpecSocial == Init /\ [][NextSocial]_vars

\* ---------------------------------------------------- POST /routines
\* the routines a user's requests name in SpecRoutines
UserRoutines == {"r1", "r2", "r3", "r4", "r5", "r6"}

\* the columns of the routines table
RoutinesTableColumns ==
  {"id", "user_id", "name", "description", "icon", "color", "category",
   "schedule_type", "schedule_time", "schedule_days", "reminder_enabled",
   "reminder_minutes_before", "status", "current_streak", "longest_streak",
   "last_completed_at", "created_at", "updated_at"}

\* its NOT NULL columns that have no default
RoutinesRequiredColumns ==
  {"user_id", "name", "icon", "color", "category", "schedule_type",
   "schedule_time", "schedule_days"}

\* INSERT INTO routines <payload> through PostgREST, r being the id the row
\* gets: a payload naming a column the table does not have is rejected as a
\* whole, and so is one that leaves a required column out
InsertRoutinePayloadStmt(st, r, payload) ==
  IF ~(DOMAIN payload \subseteq RoutinesTableColumns)
  THEN [code |-> "PGRST204", st |-> st]
  ELSE IF ~(RoutinesRequiredColumns \subseteq DOMAIN payload)
  THEN [code |-> "23502", st |-> st]
  ELSE InsertRoutineStmt(st, r)

hasProSubscription(sub, today) ==
  IF sub.plan # "pro" THEN FALSE
  ELSE IF sub.expires_at = NULL THEN FALSE
  ELSE sub.expires_at > today

\* the number of active routines from which createRoutine refuses a
\* subject without a Pro subscription
FreeRoutineLimit == 5

\* POST /routines
CreateRoutineResult(st, sub, today, r) ==
  LET isProUser == hasProSubscription(sub, today)
      count == Cardinality(ActiveRoutines(st.rt))
  IN IF ~isProUser /\ count >= FreeRoutineLimit
     THEN [status |-> "FreeTierLimitError", st |-> st]
     ELSE LET ins == InsertRoutinePayloadStmt(st, r,
                       [user_id |-> AuthUser.id, name |-> "name",
                        description |-> NULL, icon |-> "icon",
                        color |-> "#000000", category |-> "custom",
                        schedule |-> [type |-> "daily"],
                        status |-> "active"])
          IN IF ins.code # "ok"
             THEN [status |-> "ValidationError", st |-> st]
             \* rpc('increment', ...) names a function the database does
             \* not have; its error is not read
             ELSE [status |-> "ok", st |-> ins.st]

createRoutine(r) ==
  /\ routines[r].status = "none"
  /\ LET res == CreateRoutineResult(DB, subscription, now, r)
     IN Commit(res.st) /\ Respond("create_routine", res.status, r)
  /\ UNCHANGED <<inflight, rpc_result>>
  /\ UNCHANGED <<coachingVars, socialVars>>

\* one user's routines: created through the handler or inserted by the
\* client, updated and soft-deleted
InitRoutines ==
  /\ InitCoaching
  /\ InitSocial
  /\ routine_completions = EmptyBag
  /\ routines = [r \in UserRoutines |-> NoRow]
  /\ profiles = [total_routines |-> 0, current_streak |-> 0,
                 longest_streak |-> 0, total_completions |-> 0]
  /\ response = [op |-> "none", status |-> "ok", routine_id |-> "r1"]
  /\ inflight = Idle
  /\ rpc_result = [routine_id |-> "r1", date |-> 0, value |-> NULL]

NextRoutines ==
  \/ \E r \in UserRoutines : createRoutine(r)
  \/ \E r \in UserRoutines : InsertRoutine(r)
  \/ StatusStep(UserRoutines)

SpecRoutines == InitRoutines /\ [][NextRoutines]_vars

\* ------------------------------------------- errors and withErrorHandling
\* A message is the sequence of its parts; the codes the shared code tests a
\* message for ('AUTH_', 'BIZ_') are parts of their own.
startsWith(message, searchString) ==
  Len(message) >= 1 /\ message[1] = searchString

\* class APIError extends Error
APIError(code, statusCode, message) ==
  [instanceofError |-> TRUE, name |-> "APIError", code |-> code,
   statusCode |-> statusCode, message |-> message]

ValidationError(message) ==
  [APIError("VALID_001", 400, message) EXCEPT !.name = "ValidationError"]

NotFoundError(message) ==
  [APIError("BIZ_003", 404, message) EXCEPT !.name = "NotFoundError"]

ConflictError(message) ==
  [APIError("BIZ_004", 409, message) EXCEPT !.name = "ConflictError"]

\* class FreeTierLimitError extends BusinessLogicError, of code BIZ_001
FreeTierLimitError(message) ==
  [APIError("BIZ_001", 403, message) EXCEPT !.name = "FreeTierLimitError"]

\* the value of an expression that is undefined (RateLimitResult has no
\* error member, and the coaching handlers throw rateLimit.error)
undefined == [instanceofError |-> FALSE]

\* the values the handlers throw, by the outcome of the handler
Thrown(status) ==
  CASE status = "NotFound"        -> NotFoundError(<<"the routine was not found">>)
    [] status = "Conflict"        -> ConflictError(<<"the routine is already completed">>)
    [] status = "ValidationError" -> ValidationError(<<"the request failed">>)
    [] status = "FreeTierLimitError" ->
         FreeTierLimitError(<<"the number of routines is exceeded">>)
    [] status = "RateLimitError"  -> undefined

errorResponse(code, message, status) ==
  [success |-> FALSE, status |-> status, code |-> code, message |-> message]

badRequestResponse(message) == errorResponse("VALID_001", message, 400)

unauthorizedResponse(message) == errorResponse("AUTH_003", message, 401)

internalErrorResponse(message) == errorResponse("SYS_001", message, 500)

successResponse ==
  [success |-> TRUE, status |-> 200, code |-> "none", message |-> <<>>]

\* the catch block of withErrorHandling
CatchError(error) ==
  IF error.instanceofError /\ startsWith(error.message, "AUTH_")
  THEN unauthorizedResponse(<<"authentication is required">>)
  ELSE IF error.instanceofError /\ startsWith(error.message, "BIZ_")
  THEN badRequestResponse(error.message)
  ELSE internalErrorResponse(<<"a server error occurred">>)

\* serve(withErrorHandling(handler)): the Response the caller receives for
\* the outcome of the handler
withErrorHandling(status) ==
  IF status \in {"NotFound", "Conflict", "ValidationError", "RateLimitError",
                "FreeTierLimitError"}
  THEN CatchError(Thrown(status))
  ELSE successResponse

\* ------------------------------------- calculate_streak at the safety limit
\* The LOOP of calculate_streak, so evaluated that runs as long as the safety
\* limit can be walked: k iterations are the first half of them followed by
\* the rest.  A loop state is [v_streak, v_check_date, done].

\* one iteration of the LOOP
calculate_streak_iteration(rc, p_routine_id, loop) ==
  IF loop.done THEN loop
  ELSE IF ~HasCompletion(rc, p_routine_id, loop.v_check_date)
  THEN [loop EXCEPT !.done = TRUE]
  ELSE [v_streak |-> loop.v_streak + 1,
        v_check_date |-> loop.v_check_date - 1,
        done |-> loop.v_streak + 1 > StreakLimit]

RECURSIVE calculate_streak_iterations(_, _, _, _)
calculate_streak_iterations(rc, p_routine_id, loop, k) ==
  IF k = 0 \/ loop.done THEN loop
  ELSE IF k = 1 THEN calculate_streak_iteration(rc, p_routine_id, loop)
  ELSE LET first == calculate_streak_iterations(rc, p_routine_id, loop, k \div 2)
       IN calculate_streak_iterations(rc, p_routine_id, first, k - (k \div 2))

\* the LOOP leaves at the latest in the iteration that takes v_streak, which
\* starts at 1, above the limit
calculate_streak_at_limit(rc, p_routine_id, p_completion_date) ==
  calculate_streak_iterations(rc, p_routine_id,
    [v_streak |-> 1, v_check_date |-> p_completion_date - 1, done |-> FALSE],
    StreakLimit).v_streak

\* lengths of the unbroken run of the log
RunLengths == (1..MaxRun) \cup {StreakLimit - 1, StreakLimit, StreakLimit + 1}

\* a log of routine r1 with a completion on each of the days 1..n
UnbrokenLog(n) ==
  SetToBag({[routine_id |-> "r1", completion_date |-> d] : d \in 1..n})

InitCeiling ==
  /\ \E n \in RunLengths :
       /\ routine_completions = UnbrokenLog(n)
       /\ routines = [r \in Routines |->
                       IF r = "r1"
                       THEN [status |-> "active", current_streak |-> 1,
                             longest_streak |-> 1, last_completed_at |-> n]
                       ELSE NoRow]
  /\ profiles = [total_routines |-> 1, current_streak |-> 0,
                 longest_streak |-> 0, total_completions |-> 0]
  /\ response = [op |-> "none", status |-> "ok", routine_id |-> "r1"]
  /\ inflight = Idle
  /\ rpc_result = [routine_id |-> "r1", date |-> 0, value |-> NULL]
  /\ InitCoaching
  /\ InitSocial

\* rpc('calculate_streak', {p_routine_id, p_completion_date}) on a long log
rpc_calculate_streak_long(r, d) ==
  /\ rpc_result' = [routine_id |-> r, date |-> d,
                    value |-> calculate_streak_at_limit(routine_completions, r, d)]
  /\ UNCHANGED <<routine_completions, routines, profiles, response, inflight>>
  /\ UNCHANGED <<coachingVars, socialVars>>

\* anchors: the last day of the log (asked first), and its first days
NextCeiling ==
  \/ /\ rpc_result.value = NULL
     /\ rpc_calculate_streak_long("r1", routines["r1"].last_completed_at)
  \/ \E d \in 1..MaxAnchor : rpc_calculate_streak_long("r1", d)

SpecCeiling == InitCeiling /\ [][NextCeiling]_vars

\* ================================================================= claims
\* the number of consecutive days immediately before day a that are all in D
RunBefore(D, a) ==
  CHOOSE k \in 0..a : (\A i \in 1..k : (a - i) \in D) /\ ((a - (k + 1)) \notin D)

\* the most recent completion date of routine r, NULL when it has none
LatestDate(r) == SetMax(CompletionDates(routine_completions, r))

\* the Streak Calculator's result anchored at the most recent completion date
\* of routine r, 0 when no completion remains
StreakAtLatest(r) ==
  IF LatestDate(r) = NULL THEN 0
  ELSE calculate_streak(routine_completions, r, LatestDate(r))

\* C1: in every state, an existing routine's current_streak equals the Streak
\* Calculator's result anchored at its most recent remaining completion date,
\* and is 0 when no completion remains.
C1_CurrentStreakIsStreakAtLatest ==
  \A r \in Routines :
    routines[r].status # "none" => routines[r].current_streak = StreakAtLatest(r)

\* C2: calculate_streak returns 1 plus the number of consecutive days
\* immediately before the anchor that each have a completion record.
C2_StreakIsOnePlusRunBefore ==
  rpc_result.value # NULL =>
    rpc_result.value =
      1 + RunBefore(CompletionDates(routine_completions, rpc_result.routine_id),
                    rpc_result.date)

\* a call anchored at a completed day whose walk counted two earlier days and
\* stopped at a day without a record; the log holds an older record beyond it
C2_Witness ==
  /\ rpc_result.value = 3
  /\ rpc_result.date = 5
  /\ CompletionDates(routine_completions, "r1") = {1, 3, 4, 5}

\* C3: after a successful insert of a completion (routine, date) on a date that
\* had no record, current_streak is the Streak Calculator's result for that
\* date on the log that includes the new record, longest_streak is the maximum
\* of its previous value and that streak, and last_completed_at is the date.
C3_InsertSetsStreakFromCalculator ==
  [][\A r \in Routines : \A d \in Dates : \A s \in 1..MaxSnapshot :
       (InsertCompletion(r, d, s) /\ response'.status = "ok") =>
          /\ routines'[r].current_streak = calculate_streak(routine_completions', r, d)
          /\ routines'[r].longest_streak =
               GREATEST(routines[r].longest_streak,
                        calculate_streak(routine_completions', r, d))
          /\ routines'[r].last_completed_at = d]_vars

C5_LongestStreakNeverDecreases ==
  [][\A r \in Routines :
       routines'[r].longest_streak >= routines[r].longest_streak]_vars

\* an undo emptied the log: current_streak fell to 0, longest_streak kept 2
C5_Witness ==
  /\ response.op = "uncomplete"
  /\ response.status = "ok"
  /\ CompletionDates(routine_completions, "r1") = {}
  /\ routines["r1"].current_streak = 0
  /\ routines["r1"].longest_streak = 2

\* C6: after a successful insert or removal of a completion, the routine's
\* total_completions (as a read of the routines row gives it) equals the
\* number of completion records of that routine.
C6_RoutineTotalIsRecordCount ==
  \A r \in Routines :
    (response.op \in {"insert", "complete", "uncomplete", "delete"}
       /\ response.status = "ok" /\ response.routine_id = r) =>
      JsGet(routines[r], "total_completions") = CountRows(routine_completions, r)

\* C7: the profile's total_completions equals the number of completion
\* records over all of the user's routines.
C7_ProfileTotalIsRecordCount ==
  profiles.total_completions = BagCardinality(routine_completions)

\* C8: after every operation the profile's current_streak equals the maximum
\* current_streak over the user's active routines (0 when there is none).
C8_ProfileStreakIsMaxOverActive ==
  profiles.current_streak =
    COALESCE(SetMax({routines[r].current_streak : r \in ActiveRoutines(routines)}), 0)

\* C9: a complete request for a (routine, date) that has a completion record
\* when the request checks for it or when its INSERT runs is answered with
\* Conflict and changes neither the log nor any aggregate, and no (routine,
\* date) ever has more than one record.
C9_DuplicateIsConflict ==
  [][/\ \A r \in Routines : \A d \in Dates :
          (/\ BeginRoutineComplete(r, d)
           /\ routines[r].status = "active"
           /\ HasCompletion(routine_completions, r, d)) =>
             /\ response'.status = "Conflict"
             /\ UNCHANGED <<routine_completions, routines, profiles>>
     /\ (/\ FinishRoutineComplete
         /\ HasCompletion(routine_completions, inflight.routine_id, inflight.date)) =>
            /\ response'.status = "Conflict"
            /\ UNCHANGED <<routine_completions, routines, profiles>>
     /\ \A row \in BagToSet(routine_completions') :
          CopiesIn(row, routine_completions') = 1]_vars

\* C10: an uncomplete request for a (routine, date) that has no completion
\* record is answered with NotFound and changes neither the log nor any
\* aggregate.
C10_MissingCompletionIsNotFound ==
  [][\A r \in Routines : \A d \in Dates :
       (/\ response'.op = "uncomplete"
        /\ ~HasCompletion(routine_completions, r, d)
        /\ handleRoutineUncomplete(r, d)) =>
          /\ response'.status = "NotFound"
          /\ UNCHANGED <<routine_completions, routines, profiles>>]_vars

\* an existing routine with completions was asked to undo a day it has no
\* record of
C10_Witness ==
  /\ response.op = "uncomplete"
  /\ response.status = "NotFound"
  /\ routines["r1"].status = "active"
  /\ CompletionDates(routine_completions, "r1") = {1, 2}
  /\ profiles.total_completions = 2

\* C11: a completion mutation is all-or-nothing: when an aggregate-update step
\* of a removal fails (its statement returns an error), the completion-log
\* write of that removal is undone, so the removed record is in the log again.
C11_FailedAggregateStepUndoesLogWrite ==
  [][/\ (/\ UncompletePatchRoutines
         /\ PatchRoutinesStmt(DB, inflight.routine_id,
                              UncompleteRoutinesPayload).code # "ok") =>
            HasCompletion(routine_completions', inflight.routine_id, inflight.date)
     /\ (/\ UncompletePatchProfiles
         /\ PatchProfilesStmt(DB,
               [total_completions |->
                  JsMaxZeroMinusOne(JsGet(AuthUser, "total_completions"))]).code # "ok") =>
            HasCompletion(routine_completions', inflight.routine_id, inflight.date)]_vars

\* C12: when a removal that ran concurrently with insertions on the same
\* routine finishes, the routine's current_streak equals the Streak
\* Calculator's result on the final log anchored at its most recent date
\* (0 if the log is empty).
C12_ConcurrentUndoIsLogConsistent ==
  [][UncompletePatchProfiles =>
       LET r == inflight.routine_id
           last == SetMax(CompletionDates(routine_completions', r))
       IN routines'[r].current_streak =
            IF last = NULL THEN 0 ELSE calculate_streak(routine_completions', r, last)]_vars

\* C13: incrementAIUsage is one atomic increment-or-create on the record of
\* (subject, today): without a record it creates one with conversation_count
\* 1, otherwise it adds exactly 1, so that n increments interleaved in any
\* order with the other operations raise the day's count by exactly n.
C13_IncrementCreatesOrAddsOne ==
  [][(\E tokens \in TokenCounts : incrementAIUsage(tokens)) =>
       /\ coaching_response'.status = "ok"
       /\ UsedToday' = UsedToday + 1
       /\ UsageRows(ai_usage_tracking, {now}) = {} => UsedToday' = 1
       /\ BagCardinality(ai_usage_tracking') =
            BagCardinality(ai_usage_tracking)
              + (IF UsageRows(ai_usage_tracking, {now}) = {} THEN 1 ELSE 0)
       /\ \A row \in BagToSet(ai_usage_tracking) :
            row.usage_date # now => CopiesIn(row, ai_usage_tracking') = 1]_vars

\* three increments against the empty ledger of the second day
C13_Witness ==
  /\ coaching_response.op = "increment"
  /\ now = 2
  /\ UsedToday = 3

\* the subject is on the paid tier today
PaidToday ==
  subscription.plan = "pro" /\ subscription.expires_at # NULL
    /\ subscription.expires_at > now

\* the days of the month that today is in
DaysOfThisMonth ==
  {d \in QuotaDays : (d - 1) \div DaysPerMonth = (now - 1) \div DaysPerMonth}

\* the usage the current window counts: the month's sum for a paid subject,
\* today's count otherwise
UsedInWindow ==
  IF PaidToday
  THEN SumConversationCount(ai_usage_tracking,
                            UsageRows(ai_usage_tracking, DaysOfThisMonth))
  ELSE UsedToday

Ceiling == IF PaidToday THEN ProLimit ELSE FreeLimit

\* C14: for every subject state the quota check returns
\* allowed = (used < ceiling) and remaining = max(0, ceiling - used), the
\* ceiling being 3 with today's count for a free subject and 500 with the sum
\* of the month's daily counts for a paid one.
C14_CheckReportsWindowUsage ==
  [][getAIUsage =>
       /\ coaching_response'.rateLimit.allowed = (UsedInWindow < Ceiling)
       /\ coaching_response'.rateLimit.remaining =
            (IF Ceiling - UsedInWindow > 0 THEN Ceiling - UsedInWindow ELSE 0)
       /\ coaching_response'.rateLimit.limit = Ceiling]_vars

\* a free subject's check after three increments on one day
C14_Witness ==
  /\ coaching_response.op = "check"
  /\ ~PaidToday
  /\ now = 2
  /\ UsedToday = FreeLimit
  /\ coaching_response.rateLimit =
       [allowed |-> FALSE, remaining |-> 0, limit |-> FreeLimit]

C16_RequestAtCeilingIsRejected ==
  [][(/\ coaching_response'.op \in {"createConversation", "handleSendMessage"}
      /\ UsedInWindow >= Ceiling
      /\ \E c \in Conversations : \E ai_ok \in BOOLEAN :
           \/ createConversation(c, ai_ok)
           \/ coaching_conversations[c].exists /\ handleSendMessage(c, ai_ok))
       => /\ coaching_response'.status = "RateLimitError"
          /\ ~coaching_response'.ai_called
          /\ UNCHANGED <<ai_usage_tracking, coaching_conversations,
                         coaching_messages>>]_vars

\* C17: a coaching request whose AI action succeeds raises the day's usage
\* count by exactly one; a request that is rejected, or whose action is not
\* attempted or fails, leaves the usage ledger unchanged.
C17_SuccessfulActionCountsOnce ==
  [][\A c \in Conversations : \A ai_ok \in BOOLEAN :
       (/\ coaching_response'.op \in {"createConversation", "handleSendMessage"}
        /\ createConversation(c, ai_ok) \/ handleSendMessage(c, ai_ok))
         => IF coaching_response'.ai_called /\ ai_ok
            THEN UsedToday' = UsedToday + 1
            ELSE UNCHANGED ai_usage_tracking]_vars

\* C18: the quota check decides the tier from the plan and the expiry
\* timestamp at the moment of the call: once a paid subscription's expiry has
\* passed, or the plan is no longer paid, the check (checkAIRateLimit as well
\* as check_ai_limit) uses ceiling 3 and counts today's usage only, whatever
\* the rest of the month's ledger holds; and no check modifies a usage record.
C18_LapsedSubscriptionIsCheckedDaily ==
  [][/\ getAIUsage =>
          /\ UNCHANGED ai_usage_tracking
          /\ ~PaidToday =>
                /\ coaching_response'.rateLimit.limit = FreeLimit
                /\ coaching_response'.rateLimit.allowed = (UsedToday < FreeLimit)
     /\ rpc_check_ai_limit =>
          /\ UNCHANGED ai_usage_tracking
          /\ ~PaidToday =>
                coaching_response'.status =
                  (IF UsedToday < FreeLimit THEN "true" ELSE "false")]_vars

\* at most one ai_usage_tracking row per (subject, day)
OneRecordPerDay(tbl) ==
  \A row \in BagToSet(tbl) :
    /\ CopiesIn(row, tbl) = 1
    /\ \A other \in BagToSet(tbl) : other.usage_date = row.usage_date => other = row

\* C19: in every reachable state there is at most one usage record per
\* (subject, day), and no step of the rate limiter (check or increment, on any
\* day and under any plan) removes a record or lowers one of its counters.
C19_LedgerIsUniqueAndMonotone ==
  [][/\ OneRecordPerDay(ai_usage_tracking)
     /\ OneRecordPerDay(ai_usage_tracking')
     /\ \A old \in BagToSet(ai_usage_tracking) :
          \E new \in BagToSet(ai_usage_tracking') :
            /\ new.usage_date = old.usage_date
            /\ new.conversation_count >= old.conversation_count
            /\ new.message_count >= old.message_count
            /\ new.tokens_used >= old.tokens_used]_vars

\* checks and increments on two days: two records, the second one
\* incremented twice
C19_Witness ==
  /\ coaching_response.op = "check"
  /\ now = 2
  /\ UsedToday = 2
  /\ Cardinality(BagToSet(ai_usage_tracking)) = 2

\* no transaction on the group's (the challenge's) child rows is in flight
GroupQuiescent ==
  groups.lock = "none" /\ \A u \in Users : group_members[u].state \in {"none", "committed"}

ChallengeQuiescent ==
  /\ challenges.lock = "none"
  /\ \A u \in Users : challenge_participants[u].state \in {"none", "committed"}

\* C20: from the creation of a group or challenge onward, after any
\* interleaving of concurrent inserts and deletes of child rows, the group's
\* member_count equals the number of its group_members rows and the
\* challenge's participant_count the number of its challenge_participants rows.
C20_CountersEqualChildRows ==
  /\ (groups.exists /\ GroupQuiescent) =>
       groups.member_count = Cardinality(Committed(group_members))
  /\ (challenges.exists /\ ChallengeQuiescent) =>
       challenges.participant_count = Cardinality(Committed(challenge_participants))

\* the number of coaching_messages rows of conversation c
RECURSIVE CountBag(_, _)
CountBag(bag, rows) ==
  IF rows = {} THEN 0
  ELSE LET row == CHOOSE x \in rows : TRUE
       IN CopiesIn(row, bag) + CountBag(bag, rows \ {row})

MessagesOf(c) ==
  CountBag(coaching_messages,
           {row \in BagToSet(coaching_messages) : row.conversation_id = c})

\* C21: after any sequence of create-conversation and send-message requests
\* (and of message inserts by the client), the message_count of every
\* conversation equals the number of coaching_messages rows that belong to it.
C21_MessageCountEqualsMessages ==
  \A c \in Conversations :
    coaching_conversations[c].exists =>
      coaching_conversations[c].message_count = MessagesOf(c)

\* C22: calculate_streak never returns a value above the iteration ceiling
\* (10,000): for an unbroken run longer than the ceiling the result is the
\* ceiling.
C22_ResultAtMostCeiling ==
  rpc_result.value # NULL => rpc_result.value <= StreakLimit

\* C23: in every state reached by recording completions (dates in any order)
\* and removing them, the longest_streak of a routine is greater than or
\* equal to its current_streak.
C23_LongestAtLeastCurrent ==
  \A r \in Routines :
    routines[r].status # "none" =>
      routines[r].longest_streak >= routines[r].current_streak

\* C24: a Conflict, NotFound or quota-exceeded error raised in a request
\* handler reaches the caller as that typed outcome (Conflict as 409 with
\* BIZ_004, NotFound as 404 with BIZ_003, quota-exceeded as 429), never as
\* the generic internal error.
C24_TypedErrorReachesCaller ==
  /\ response.status = "Conflict" =>
       /\ withErrorHandling(response.status).status = 409
       /\ withErrorHandling(response.status).code = "BIZ_004"
  /\ response.status = "NotFound" =>
       /\ withErrorHandling(response.status).status = 404
       /\ withErrorHandling(response.status).code = "BIZ_003"
  /\ coaching_response.status = "RateLimitError" =>
       withErrorHandling(coaching_response.status).status = 429

\* C25: in every reachable state the total_completions of every routine and
\* of the profile is a non-negative integer (a removal at 0 leaves 0); a
\* routine's counter is the value a read of its row gives where the row has
\* the column.
C25_TotalCompletionsNonNegative ==
  /\ profiles.total_completions \in Nat
  /\ \A r \in Routines :
       "total_completions" \in DOMAIN routines[r] =>
          routines[r].total_completions \in Nat

\* C26: after any sequence of routine creations, status changes (active,
\* archived, deleted) and soft deletes by one user, the profile's
\* total_routines equals the number of the user's routines whose status is
\* active.
C26_TotalRoutinesCountsActive ==
  profiles.total_routines =
    Cardinality({r \in DOMAIN routines : routines[r].status = "active"})

\* routines of every status exist and the counter holds the two active ones
C26_Witness ==
  /\ \E r \in UserRoutines : routines[r].status = "archived"
  /\ \E r \in UserRoutines : routines[r].status = "deleted"
  /\ Cardinality({r \in UserRoutines : routines[r].status = "active"}) = 2
  /\ profiles.total_routines = 2
  /\ response.op = "update_routine"
  /\ response.status = "ok"

\* C27: a user without a Pro subscription never has more than 5 active
\* routines, in every state reached by creations, status updates (an
\* archived routine set back to active included) and soft deletes.
C27_FreeTierAtMostFiveActive ==
  ~hasProSubscription(subscription, now) =>
     Cardinality(ActiveRoutines(routines)) <= FreeRoutineLimit

C29_UpdateAndDeleteKeepLogAndStreaks ==
  [][\A r \in Routines :
       (/\ response'.op \in {"update_routine", "delete_routine"}
        /\ response'.routine_id = r
        /\ updateRoutine(r, "active") \/ updateRoutine(r, "archived")
              \/ deleteRoutine(r)) =>
         /\ routine_completions' = routine_completions
         /\ \A q \in Routines :
              /\ routines'[q].current_streak = routines[q].current_streak
              /\ routines'[q].longest_streak = routines[q].longest_streak
              /\ routines'[q].last_completed_at = routines[q].last_completed_at
              /\ JsGet(routines'[q], "total_completions")
                   = JsGet(routines[q], "total_completions")
              /\ q # r => routines'[q] = routines[q]
         /\ routines[r].status # "none" => routines'[r].status # "none"]_vars

\* a routine with a streak of 2 over days 1 and 2 was soft-deleted and keeps
\* its records and its streak
C29_Witness ==
  /\ response.op = "delete_routine"
  /\ response.status = "ok"
  /\ response.routine_id = "r1"
  /\ routines["r1"].status = "deleted"
  /\ routines["r1"].current_streak = 2
  /\ CompletionDates(routine_completions, "r1") = {1, 2}

\* C30: check_ai_limit and checkAIRateLimit agree for every subject state
\* (plan, expiry unset, set or passed, any usage records, none for today
\* included): check_ai_limit returns TRUE exactly when checkAIRateLimit
\* returns allowed = true.
C30_CheckAiLimitAgrees ==
  (check_ai_limit(subscription, ai_usage_tracking, now, now) = "true")
    <=> checkAIRateLimit(subscription, ai_usage_tracking, now).allowed

====
